---- MODULE Spec2Model ----
(***************************************************************************)
(* A model of the To-Do list application (src/To-Do list app/main.cpp):   *)
(* the task records, the TaskManager store and its file format.           *)
(*                                                                         *)
(* A std::string is a sequence of one-character strings, so that the      *)
(* serialisation (toFileString), the parsing (getline on ';' and '.'),    *)
(* std::stoi and the display formatting are computed character by         *)
(* character, as the code computes them.  A TaskBase* is a number, the    *)
(* heap maps the live pointers to the objects they point to.              *)
(***************************************************************************)
EXTENDS Integers, Sequences, FiniteSets, TLC

\* ------------------------------------------------------------------ bounds

\* How many task objects may be alive at once (active + completed) in the
\* specifications of the whole store, Spec and SpecStore.
MaxRecs == 2

\* How many tasks are added in the specifications that only add and list,
\* SpecAdd and SpecSort.
MaxAdded == 3

\* How many deadlines are compared with each other in SpecDates.
MaxCompared == 2

\* ------------------------------------------------------------ std::string

\* s.substr(i-1, j-i+1) with 1-based inclusive positions; empty when j < i.
SubStr(s, i, j) == [k \in 1..(j - i + 1) |-> s[i + k - 1]]

SetMin(S) == CHOOSE x \in S : \A y \in S : x <= y

\* The characters the model's strings are written with, in ASCII order.
Ascii ==
    << " ", "+", "-", ".", "0", "1", "2", "3", "4", "5", "6", "7", "8", "9",
       ":", ";", "B", "D", "E", "H", "M", "N", "O", "R", "W", "[", "]",
       "a", "b", "c", "d", "e", "f", "g", "h", "i", "k", "l", "m", "o", "p",
       "r", "t", "u", "x", "y" >>

Code(c) == CHOOSE i \in 1..Len(Ascii) : Ascii[i] = c

\* std::string operator< : lexicographic comparison of the characters.
RECURSIVE StrLess(_, _)
StrLess(a, b) ==
    IF b = <<>> THEN FALSE
    ELSE IF a = <<>> THEN TRUE
    ELSE IF Code(Head(a)) # Code(Head(b)) THEN Code(Head(a)) < Code(Head(b))
    ELSE StrLess(Tail(a), Tail(b))

\* Iteration order of a std::set<std::string>: ascending.
RECURSIVE SetInOrder(_)
SetInOrder(S) ==
    IF S = {} THEN <<>>
    ELSE LET m == CHOOSE x \in S : \A y \in S \ {x} : StrLess(x, y)
         IN  <<m>> \o SetInOrder(S \ {m})

\* line.rfind(prefix, 0) == 0 : the string starts with the prefix.
StartsWith(s, prefix) ==
    /\ Len(s) >= Len(prefix)
    /\ SubStr(s, 1, Len(prefix)) = prefix

\* std::left << std::setw(w) << s : padded with spaces on the right up to
\* the width w, never cut.
SetwLeft(s, w) ==
    IF Len(s) >= w THEN s ELSE s \o [k \in 1..(w - Len(s)) |-> " "]

\* ------------------------------------------------- std::istringstream

\* A string stream: the buffer, the read position (1-based) and good().
istringstream(s) == [buf |-> s, pos |-> 1, good |-> TRUE]

\* std::getline(ss, str, delim).  With a stream that is not good() the
\* sentry fails: failbit, str untouched.  Otherwise characters are taken up
\* to and including the delimiter (which is dropped) or up to the end of the
\* buffer (eofbit); failbit when not a single character was taken.
\* "ok" is the value of the returned stream in a condition (!fail()).
getline(ss, str, delim) ==
    IF ~ss.good
    THEN [ss |-> ss, str |-> str, ok |-> FALSE]
    ELSE LET n    == Len(ss.buf)
             hits == {i \in ss.pos..n : ss.buf[i] = delim}
         IN  IF hits # {}
             THEN LET i == SetMin(hits)
                  IN  [ss  |-> [ss EXCEPT !.pos = i + 1],
                       str |-> SubStr(ss.buf, ss.pos, i - 1),
                       ok  |-> TRUE]
             ELSE [ss  |-> [ss EXCEPT !.pos = n + 1, !.good = FALSE],
                   str |-> SubStr(ss.buf, ss.pos, n),
                   ok  |-> ss.pos <= n]

\* ------------------------------------------------------------ std::stoi

INT_MAX == 2147483647

IsSpace(c) == c = " "

IsDigit(c) == c \in {"0", "1", "2", "3", "4", "5", "6", "7", "8", "9"}

DigitVal(c) == Code(c) - Code("0")

\* The digits from position i on, accumulated as a negative number so that
\* INT_MIN is representable; "range" is FALSE once the value leaves
\* [lim, 0].
RECURSIVE Digits(_, _, _, _)
Digits(s, i, acc, lim) ==
    IF i > Len(s) \/ ~IsDigit(s[i])
    THEN [range |-> TRUE, neg |-> acc]
    ELSE IF acc < (lim + DigitVal(s[i]) + 9) \div 10
         THEN [range |-> FALSE, neg |-> 0]
         ELSE Digits(s, i + 1, acc * 10 - DigitVal(s[i]), lim)

\* std::stoi(s): strtol in base 10 (leading white space skipped, an optional
\* sign, then as many digits as there are; what follows is ignored);
\* std::invalid_argument when there is no digit to convert,
\* std::out_of_range when the value is no int.
stoi(s) ==
    LET nonsp == {i \in 1..Len(s) : ~IsSpace(s[i])}
        b     == IF nonsp = {} THEN Len(s) + 1 ELSE SetMin(nonsp)
        sign  == IF b <= Len(s) /\ s[b] \in {"+", "-"} THEN s[b] ELSE ""
        d     == IF sign = "" THEN b ELSE b + 1
        lim   == IF sign = "-" THEN (-INT_MAX) - 1 ELSE -INT_MAX
        r     == Digits(s, d, 0, lim)
    IN  IF d > Len(s) \/ ~IsDigit(s[d])
        THEN [outcome |-> "invalid_argument", val |-> 0]
        ELSE IF ~r.range
        THEN [outcome |-> "out_of_range", val |-> 0]
        ELSE [outcome |-> "ok", val |-> IF sign = "-" THEN r.neg ELSE -r.neg]

\* dateToInt without the zero padding of a one-digit day and month: the
\* slip the sort-order property C6 has to detect.
dateToInt_NoPadding(date) ==
    LET g1 == getline(istringstream(date), <<>>, ".")
        g2 == getline(g1.ss, <<>>, ".")
        g3 == getline(g2.ss, <<>>, ".")
    IN  stoi(g3.str \o g2.str \o g1.str)

\* dateToInt that joins the fields as they are written, day first
\* (ddmmyyyy): the slip the chronology property C18 has to detect.
dateToInt_DayFirst(date) ==
    LET g1    == getline(istringstream(date), <<>>, ".")
        g2    == getline(g1.ss, <<>>, ".")
        g3    == getline(g2.ss, <<>>, ".")
        day   == IF Len(g1.str) = 1 THEN <<"0">> \o g1.str ELSE g1.str
        month == IF Len(g2.str) = 1 THEN <<"0">> \o g2.str ELSE g2.str
        year  == g3.str
    IN  stoi(day \o month \o year)

\* TaskManager::dateToInt: "dd.mm.yyyy" to the int yyyymmdd; the outcome is
\* "ok" with the value, or the exception std::stoi throws.
dateToInt(date) ==
    LET g1    == getline(istringstream(date), <<>>, ".")
        g2    == getline(g1.ss, <<>>, ".")
        g3    == getline(g2.ss, <<>>, ".")
        day   == IF Len(g1.str) = 1 THEN <<"0">> \o g1.str ELSE g1.str
        month == IF Len(g2.str) = 1 THEN <<"0">> \o g2.str ELSE g2.str
        year  == g3.str
    IN  stoi(year \o month \o day)

\* ------------------------------------------------------- task objects

\* Task(t, d, c): a plain task has no category member.
Task(t, d, c) ==
    [kind |-> "Task", title |-> t, deadline |-> d, completed |-> c]

\* CategorizedTask(t, d, cat, c).
CategorizedTask(t, d, cat, c) ==
    [kind |-> "CategorizedTask", title |-> t, deadline |-> d,
     completed |-> c, category |-> cat]

\* getCategory(): "" for a plain Task, the member for a CategorizedTask.
getCategory(r) == IF r.kind = "CategorizedTask" THEN r.category ELSE <<>>

\* toFileString as Task defines it, for every kind of task (as if
\* CategorizedTask did not override it): the slip the round trip C1 has to
\* detect.
toFileString_NoCategory(r) ==
    r.title \o <<";">> \o r.deadline \o <<";">>
    \o (IF r.completed THEN <<"1">> ELSE <<"0">>)

\* toFileString(): title;deadline;flag and, for a CategorizedTask, ;category.
toFileString(r) ==
    LET base == r.title \o <<";">> \o r.deadline \o <<";">>
                \o (IF r.completed THEN <<"1">> ELSE <<"0">>)
    IN  IF r.kind = "CategorizedTask"
        THEN base \o <<";">> \o r.category
        ELSE base

\* display(): the line written to std::cout.  The fixed pieces of text are
\* kept whole, the fields are padded character by character.
display(r) ==
    LET base == <<(IF r.completed THEN "[X] " ELSE "[ ] ")>>
                \o SetwLeft(r.title, 20) \o <<" | Due: ">>
                \o SetwLeft(r.deadline, 12)
    IN  IF r.kind = "CategorizedTask"
        THEN base \o <<" | Category: ">> \o r.category
        ELSE base

\* --------------------------------------------------------- the store

VARIABLES
    heap,            \* the live task objects: pointer -> object
    tasks,           \* std::vector<TaskBase*> tasks (active)
    completedTasks,  \* std::vector<TaskBase*> completedTasks
    titleMap,        \* std::map<std::string, TaskBase*> titleMap
    categories,      \* std::set<std::string> categories
    file,            \* the file the store is saved to and loaded from
    out,             \* what the last operation wrote to std::cout
    lastOp           \* the last call made on the store and how it ended

vars == <<heap, tasks, completedTasks, titleMap, categories, file, out, lastOp>>

\* The TaskManager object as one value.
Store ==
    [heap |-> heap, tasks |-> tasks, completedTasks |-> completedTasks,
     titleMap |-> titleMap, categories |-> categories]

\* A TaskManager right after construction.
EmptyStore ==
    [heap |-> <<>>, tasks |-> <<>>, completedTasks |-> <<>>,
     titleMap |-> <<>>, categories |-> {}]

\* new: an address no live object has.
NewPtr(h) == SetMin((1..(Cardinality(DOMAIN h) + 1)) \ DOMAIN h)

\* The heap after  p = new <object r>.
Alloc(h, p, r) == [q \in DOMAIN h \cup {p} |-> IF q = p THEN r ELSE h[q]]

\* The heap after  delete p.
Free(h, p) == [q \in DOMAIN h \ {p} |-> h[q]]

\* m.insert({key, p}) instead of m[key] = p: an existing entry stays as it
\* is.  The slip the uniqueness property C2 has to detect.
MapPut_KeepFirst(m, key, p) ==
    [k \in DOMAIN m \cup {key} |-> IF k \in DOMAIN m THEN m[k] ELSE p]

\* m[key] = p on a std::map: inserts the key or overwrites its value.
MapPut(m, key, p) ==
    [k \in DOMAIN m \cup {key} |-> IF k = key THEN p ELSE m[k]]

\* m.erase(it) for the entry of key.
MapErase(m, key) == [k \in DOMAIN m \ {key} |-> m[k]]

\* v.erase(std::remove(v.begin(), v.end(), p), v.end()): every occurrence
\* of p leaves, the others keep their order.
RECURSIVE EraseRemove(_, _)
EraseRemove(v, p) ==
    IF v = <<>> THEN <<>>
    ELSE IF Head(v) = p THEN EraseRemove(Tail(v), p)
    ELSE <<Head(v)>> \o EraseRemove(Tail(v), p)

\* addTask that pushes the task onto tasks twice: the slip the ownership
\* property C19 has to detect.
addTask_PushesTwice(S, task) ==
    LET r == S.heap[task]
    IN  [S EXCEPT
            !.tasks      = S.tasks \o <<task, task>>,
            !.titleMap   = MapPut(S.titleMap, r.title, task),
            !.categories = IF getCategory(r) # <<>>
                           THEN S.categories \cup {getCategory(r)}
                           ELSE S.categories]

\* TaskManager::addTask(task), task pointing to a live object.
addTask(S, task) ==
    LET r == S.heap[task]
    IN  [S EXCEPT
            !.tasks      = Append(S.tasks, task),
            !.titleMap   = MapPut(S.titleMap, r.title, task),
            !.categories = IF getCategory(r) # <<>>
                           THEN S.categories \cup {getCategory(r)}
                           ELSE S.categories]

\* markCompleted without titleMap.erase(it): the slip C4 has to detect.
markCompleted_KeepsEntry(S, title) ==
    IF title \notin DOMAIN S.titleMap THEN S
    ELSE LET p == S.titleMap[title]
         IN  [S EXCEPT
                 !.heap           = [S.heap EXCEPT ![p].completed = TRUE],
                 !.completedTasks = Append(S.completedTasks, p),
                 !.tasks          = EraseRemove(S.tasks, p)]

\* markCompleted that puts the task at the front of completedTasks: the
\* slip the completion property C15 has to detect.
markCompleted_PushFront(S, title) ==
    IF title \notin DOMAIN S.titleMap THEN S
    ELSE LET p == S.titleMap[title]
         IN  [S EXCEPT
                 !.heap           = [S.heap EXCEPT ![p].completed = TRUE],
                 !.completedTasks = <<p>> \o S.completedTasks,
                 !.tasks          = EraseRemove(S.tasks, p),
                 !.titleMap       = MapErase(S.titleMap, title)]

\* TaskManager::markCompleted(title).
markCompleted(S, title) ==
    IF title \notin DOMAIN S.titleMap THEN S
    ELSE LET p == S.titleMap[title]
         IN  [S EXCEPT
                 !.heap           = [S.heap EXCEPT ![p].completed = TRUE],
                 !.completedTasks = Append(S.completedTasks, p),
                 !.tasks          = EraseRemove(S.tasks, p),
                 !.titleMap       = MapErase(S.titleMap, title)]

\* deleteTask that also takes the task's category out of categories: the
\* slip the monotonicity property C5 has to detect.
deleteTask_DropsCategory(S, title) ==
    IF title \notin DOMAIN S.titleMap THEN S
    ELSE LET task == S.titleMap[title]
         IN  [S EXCEPT
                 !.tasks      = EraseRemove(S.tasks, task),
                 !.heap       = Free(S.heap, task),
                 !.titleMap   = MapErase(S.titleMap, title),
                 !.categories = S.categories \ {getCategory(S.heap[task])}]

\* deleteTask that, finding no entry for the title, drops the completed
\* tasks of that title: the slip the not-found property C16 has to detect.
deleteTask_ReachesCompleted(S, title) ==
    IF title \notin DOMAIN S.titleMap
    THEN LET Other(p) == S.heap[p].title # title
         IN  [S EXCEPT !.completedTasks = SelectSeq(S.completedTasks, Other)]
    ELSE LET task == S.titleMap[title]
         IN  [S EXCEPT
                 !.tasks    = EraseRemove(S.tasks, task),
                 !.heap     = Free(S.heap, task),
                 !.titleMap = MapErase(S.titleMap, title)]

\* TaskManager::deleteTask(title).
deleteTask(S, title) ==
    IF title \notin DOMAIN S.titleMap THEN S
    ELSE LET task == S.titleMap[title]
         IN  [S EXCEPT
                 !.tasks    = EraseRemove(S.tasks, task),
                 !.heap     = Free(S.heap, task),
                 !.titleMap = MapErase(S.titleMap, title)]

\* saveToFile with its two loops in the other order, the completed tasks
\* first: the slip the line-order property C12 has to detect.
saveLines_CompletedFirst(S) ==
    [i \in 1..Len(S.completedTasks) |->
            <<"D", "O", "N", "E", ":">>
            \o toFileString(S.heap[S.completedTasks[i]])]
    \o [i \in 1..Len(S.tasks) |-> toFileString(S.heap[S.tasks[i]])]

\* TaskManager::~TaskManager: the pointers it deletes, in order.
DestructorDeletes(S) == S.tasks \o S.completedTasks

\* The lines TaskManager::saveToFile writes to an open stream.
saveLines(S) ==
    [i \in 1..Len(S.tasks) |-> toFileString(S.heap[S.tasks[i]])]
    \o [i \in 1..Len(S.completedTasks) |->
            <<"D", "O", "N", "E", ":">>
            \o toFileString(S.heap[S.completedTasks[i]])]

\* The literal that marks the line of a completed task.
DONE == <<"D", "O", "N", "E", ":">>

\* The object loadFromFile builds from a line (the prefix already cut off):
\* the fields between the ';', a CategorizedTask when a fourth field could
\* be read and a Task otherwise.
parseLine(line) ==
    LET g1 == getline(istringstream(line), <<>>, ";")
        g2 == getline(g1.ss, <<>>, ";")
        g3 == getline(g2.ss, <<>>, ";")
        g4 == getline(g3.ss, <<>>, ";")
        completed == (g3.str = <<"1">>)
    IN  IF g4.ok
        THEN CategorizedTask(g1.str, g2.str, g4.str, completed)
        ELSE Task(g1.str, g2.str, completed)

\* loadLine that hands the tasks of "DONE:" lines to the category index
\* too: the slip C7 has to detect.
loadLine_IndexesDone(S, fileLine) ==
    LET isDone == StartsWith(fileLine, DONE)
        line   == IF isDone THEN SubStr(fileLine, 6, Len(fileLine)) ELSE fileLine
        t      == NewPtr(S.heap)
        S1     == [S EXCEPT !.heap = Alloc(S.heap, t, parseLine(line))]
        cat    == getCategory(parseLine(line))
    IN  IF isDone
        THEN [S1 EXCEPT !.completedTasks = Append(S1.completedTasks, t),
                        !.categories = IF cat # <<>> THEN S1.categories \cup {cat}
                                       ELSE S1.categories]
        ELSE addTask(S1, t)

\* One turn of the loop of TaskManager::loadFromFile, for one line.
loadLine(S, fileLine) ==
    LET isDone == StartsWith(fileLine, DONE)
        line   == IF isDone THEN SubStr(fileLine, 6, Len(fileLine)) ELSE fileLine
        t      == NewPtr(S.heap)
        S1     == [S EXCEPT !.heap = Alloc(S.heap, t, parseLine(line))]
    IN  IF isDone
        THEN [S1 EXCEPT !.completedTasks = Append(S1.completedTasks, t)]
        ELSE addTask(S1, t)

\* TaskManager::loadFromFile on the lines of an opened file.
RECURSIVE loadLines(_, _)
loadLines(S, lines) ==
    IF lines = <<>> THEN S
    ELSE loadLines(loadLine(S, Head(lines)), Tail(lines))

\* ------------------------------------------------------------ inputs

\* A deadline typed as the prompt asks for it.
D_1_1_2024 == <<"1", ".", "1", ".", "2", "0", "2", "4">>

\* What the user types at the three prompts of "Add Task": title, deadline
\* and category.  No prompt validates what it reads.
UserTasks ==
    { << <<"a">>, D_1_1_2024, <<>> >>,
      << <<"b">>, D_1_1_2024, <<"W">> >>,
      << <<"a">>, <<>>, <<"H">> >> }

\* The same prompts, answered with text that holds the characters of the
\* file format: ';' in a title, in a deadline and in a category, and a
\* title that starts with "DONE:".
UserTasksWithMarks ==
    { << <<"a">>, D_1_1_2024, <<>> >>,
      << <<"b">>, D_1_1_2024, <<"W">> >>,
      << <<"a", ";", "b">>, D_1_1_2024, <<>> >>,
      << <<"D", "O", "N", "E", ":", "a">>, <<>>, <<>> >>,
      << <<"b">>, <<"1", ";", "1">>, <<>> >>,
      << <<"b">>, D_1_1_2024, <<"W", ";", "H">> >> }

\* What the user types at the title prompts of "Mark Task Completed" and
\* "Delete Task".
Titles == { <<"a">>, <<"b">> }

TitlesWithMarks == { <<"a">>, <<"b">>, <<"a", ";", "b">> }

\* What the user types at "Enter category to filter by: ".
Categories == { <<>>, <<"W">>, <<"H">> }

\* What the user types at "Enter title keyword to search: ".
Queries == { <<>>, <<"a">> }

\* Tasks that differ in their deadline: the three dates of the sorting
\* example, a date written with and without padding, and deadlines that
\* are not dd.mm.yyyy.
SortTasks ==
    { << <<"a">>, d, <<>> >> :
        d \in { D_1_1_2024,
                <<"1", "5", ".", "0", "3", ".", "2", "0", "2", "3">>,
                <<"0", "2", ".", "0", "2", ".", "2", "0", "2", "4">>,
                <<"0", "1", ".", "0", "1", ".", "2", "0", "2", "4">>,
                <<>>,
                <<"5">>,
                <<"1", ".", "1">>,
                <<"1", ".", ".", "2", "0", "2", "4">>,
                <<"a", "b", ".", "c", "d", ".", "e", "f", "g", "h">> } }

\* The tasks file found on disk when the program starts: none, or one of
\* these (the lines of a file written by hand or by an earlier run).
FilesOnDisk ==
    { [exists |-> FALSE, lines |-> <<>>],
      [exists |-> TRUE, lines |->
         << <<"D", "O", "N", "E", ":", "R", "e", "p", "o", "r", "t", ";",
              "1", "0", ".", "1", "0", ".", "2", "0", "2", "4", ";", "1", ";",
              "W", "o", "r", "k">> >>],
      [exists |-> TRUE, lines |->
         << <<"a", ";", "1", ".", "1", ".", "2", "0", "2", "4", ";", "1", ";", "H">>,
            <<"D", "O", "N", "E", ":", "a", ";", ";", "0">> >>],
      [exists |-> TRUE, lines |->
         << <<"b">>,
            <<"b", ";", "1", ".", "1", ".", "2", "0", "2", "4", ";", "0", ";">> >>] }

\* ----------------------------------------------------------- actions

Done(op, arg, flag, outcome) ==
    lastOp' = [op |-> op, arg |-> arg, flag |-> flag, outcome |-> outcome]

\* The program runs until an exception no caller catches ends it (main has
\* no try block) or until main has saved the store and returns.
Running == lastOp.outcome = "ok" /\ lastOp.op # "saveToFile"

SetStore(S) ==
    /\ heap' = S.heap
    /\ tasks' = S.tasks
    /\ completedTasks' = S.completedTasks
    /\ titleMap' = S.titleMap
    /\ categories' = S.categories

StoreUnchanged == UNCHANGED <<heap, tasks, completedTasks, titleMap, categories>>

Init ==
    /\ heap = EmptyStore.heap
    /\ tasks = EmptyStore.tasks
    /\ completedTasks = EmptyStore.completedTasks
    /\ titleMap = EmptyStore.titleMap
    /\ categories = EmptyStore.categories
    /\ file \in FilesOnDisk
    /\ out = <<>>
    /\ lastOp = [op |-> "TaskManager", arg |-> <<>>, flag |-> FALSE, outcome |-> "ok"]

\* main, choice 1: a Task when the category is left empty, a
\* CategorizedTask otherwise, handed to addTask.
AddTask(Inputs, Max) ==
    /\ Running
    /\ Cardinality(DOMAIN heap) < Max
    /\ \E in \in Inputs :
          LET title    == in[1]
              deadline == in[2]
              category == in[3]
              p == NewPtr(heap)
              r == IF category = <<>> THEN Task(title, deadline, FALSE)
                   ELSE CategorizedTask(title, deadline, category, FALSE)
          IN  /\ SetStore(addTask([Store EXCEPT !.heap = Alloc(heap, p, r)], p))
              /\ Done("addTask", title, TRUE, "ok")
    /\ out' = <<>>
    /\ UNCHANGED file

\* The lines viewTasks displays from the vector temp.
Displayed(h, v) == [i \in 1..Len(v) |-> display(h[v[i]])]

\* The key the comparison of viewTasks gives each element of v:
\* dateToInt of its deadline.
RECURSIVE DeadlineKeys(_, _)
DeadlineKeys(h, v) ==
    IF v = <<>> THEN <<>>
    ELSE <<dateToInt(h[Head(v)].deadline).val>> \o DeadlineKeys(h, Tail(v))

\* The orders a comparison with > in place of < would give, a greatest key
\* first: the slip the sorted-view property C17 has to detect.
RECURSIVE SortedOrders_Descending(_, _)
SortedOrders_Descending(key, I) ==
    IF I = {} THEN {<<>>}
    ELSE UNION { { <<i>> \o rest : rest \in SortedOrders_Descending(key, I \ {i}) } :
                   i \in { m \in I : \A j \in I : ~(key[j] > key[m]) } }

\* The orders in which the positions I can be listed so that no key is
\* less than a key listed before it: a least one first, then the rest.
RECURSIVE SortedOrders(_, _)
SortedOrders(key, I) ==
    IF I = {} THEN {<<>>}
    ELSE UNION { { <<i>> \o rest : rest \in SortedOrders(key, I \ {i}) } :
                   i \in { m \in I : \A j \in I : ~(key[j] < key[m]) } }

\* What std::sort may leave in temp: a rearrangement of the elements in
\* which no element's key is less than the key of an element before it
\* (the order of elements with equal keys is unspecified).
SortedByDeadline(h, v) ==
    LET key == DeadlineKeys(h, v)
    IN  { [i \in 1..Len(v) |-> v[f[i]]] : f \in SortedOrders(key, 1..Len(v)) }

\* The exceptions the comparisons of std::sort can end in: with two or more
\* elements every element is compared, so every deadline is converted.
SortThrows(h, v) ==
    IF Len(v) < 2 THEN {}
    ELSE { dateToInt(h[v[i]].deadline).outcome : i \in 1..Len(v) } \ {"ok"}

\* TaskManager::viewTasks(sorted).
ViewTasks ==
    /\ Running
    /\ \E sorted \in BOOLEAN :
          IF sorted /\ SortThrows(heap, tasks) # {}
          THEN /\ out' = <<>>
               /\ \E e \in SortThrows(heap, tasks) : Done("viewTasks", <<>>, sorted, e)
          ELSE /\ \E temp \in (IF sorted THEN SortedByDeadline(heap, tasks) ELSE {tasks}) :
                     out' = Displayed(heap, temp)
               /\ Done("viewTasks", <<>>, sorted, "ok")
    /\ StoreUnchanged
    /\ UNCHANGED file

\* TaskManager::viewCompleted().
ViewCompleted ==
    /\ Running
    /\ out' = Displayed(heap, completedTasks)
    /\ Done("viewCompleted", <<>>, TRUE, "ok")
    /\ StoreUnchanged
    /\ UNCHANGED file

\* TaskManager::markCompleted(title).
MarkCompleted(T) ==
    /\ Running
    /\ \E title \in T :
          /\ SetStore(markCompleted(Store, title))
          /\ Done("markCompleted", title, title \in DOMAIN titleMap, "ok")
    /\ out' = <<>>
    /\ UNCHANGED file

\* TaskManager::deleteTask(title).
DeleteTask(T) ==
    /\ Running
    /\ \E title \in T :
          /\ SetStore(deleteTask(Store, title))
          /\ Done("deleteTask", title, title \in DOMAIN titleMap, "ok")
    /\ out' = <<>>
    /\ UNCHANGED file

\* s.find(q) == 0 instead of != std::string::npos: only a title that
\* starts with the query matches.  The slip the search property C11 has to
\* detect.
Contains_AtStart(s, q) ==
    \E i \in 0..0 : i <= Len(s) - Len(q) /\ SubStr(s, i + 1, i + Len(q)) = q

\* s.find(q) != std::string::npos.
Contains(s, q) ==
    \E i \in 0..(Len(s) - Len(q)) : SubStr(s, i + 1, i + Len(q)) = q

\* The tasks TaskManager::searchTask(query) displays.
searchTask(S, query) ==
    LET Match(t) == Contains(S.heap[t].title, query)
    IN  Displayed(S.heap, SelectSeq(S.tasks, Match))

SearchTask(Q) ==
    /\ Running
    /\ \E query \in Q :
          /\ out' = searchTask(Store, query)
          /\ Done("searchTask", query, TRUE, "ok")
    /\ StoreUnchanged
    /\ UNCHANGED file

\* The lines " - <category>" of listAllCategories and filterByCategory.
CategoryLines(S) ==
    LET cs == SetInOrder(S.categories)
    IN  [i \in 1..Len(cs) |-> <<" - ">> \o cs[i]]

\* The tasks TaskManager::filterByCategory(category) displays.
filterByCategory(S, category) ==
    LET Match(t) == getCategory(S.heap[t]) = category
    IN  Displayed(S.heap, SelectSeq(S.tasks, Match))

FilterByCategory(C) ==
    /\ Running
    /\ \E category \in C :
          /\ out' = << <<"Available categories to choose from:">> >>
                    \o CategoryLines(Store)
                    \o << <<>>, <<"Showing tasks for category: ">> \o category >>
                    \o filterByCategory(Store, category)
          /\ Done("filterByCategory", category, TRUE, "ok")
    /\ StoreUnchanged
    /\ UNCHANGED file

\* TaskManager::listAllCategories().
ListAllCategories ==
    /\ Running
    /\ out' = << <<"Available categories:">> >> \o CategoryLines(Store)
    /\ Done("listAllCategories", <<>>, TRUE, "ok")
    /\ StoreUnchanged
    /\ UNCHANGED file

\* The file after TaskManager::saveToFile, opened telling whether the
\* std::ofstream could open the path: a stream that is not open drops
\* every write, and the function returns all the same.
saveToFile(S, f, opened) ==
    IF opened THEN [exists |-> TRUE, lines |-> saveLines(S)] ELSE f

SaveToFile ==
    /\ Running
    /\ \E opened \in BOOLEAN :
          /\ file' = saveToFile(Store, file, opened)
          /\ Done("saveToFile", <<>>, opened, "ok")
    /\ out' = <<>>
    /\ StoreUnchanged

\* TaskManager::loadFromFile: a file that cannot be opened reads as no line.
loadFromFile(S, f) == IF f.exists THEN loadLines(S, f.lines) ELSE S

LoadFromFile ==
    /\ Running
    /\ Cardinality(DOMAIN heap) + Len(file.lines) <= MaxRecs
    /\ SetStore(loadFromFile(Store, file))
    /\ Done("loadFromFile", <<>>, file.exists, "ok")
    /\ out' = <<>>
    /\ UNCHANGED file

Next ==
    \/ AddTask(UserTasks, MaxRecs)
    \/ ViewTasks
    \/ ViewCompleted
    \/ MarkCompleted(Titles)
    \/ DeleteTask(Titles)
    \/ SearchTask(Queries)
    \/ FilterByCategory(Categories)
    \/ ListAllCategories
    \/ SaveToFile
    \/ LoadFromFile

\* The whole program: every operation of the menu, the load main starts
\* with and the save it ends with.
Spec == Init /\ [][Next]_vars

\* The operations that change the store or the file, on input that holds
\* the characters of the file format.
NextStore ==
    \/ AddTask(UserTasksWithMarks, MaxRecs)
    \/ MarkCompleted(TitlesWithMarks)
    \/ DeleteTask(TitlesWithMarks)
    \/ SaveToFile
    \/ LoadFromFile

SpecStore == Init /\ [][NextStore]_vars

\* A store that starts empty, with no file to load.
InitEmpty == Init /\ ~file.exists

\* addTask alone.
NextAdd == AddTask(UserTasksWithMarks, MaxAdded)

SpecAdd == InitEmpty /\ [][NextAdd]_vars

\* Adding tasks and listing them.
NextSort ==
    \/ AddTask(SortTasks, MaxAdded)
    \/ ViewTasks

SpecSort == InitEmpty /\ [][NextSort]_vars

\* The titles of the search example.
BuyMilk == <<"B", "u", "y", " ", "m", "i", "l", "k">>

D_01_01_2025 == <<"0", "1", ".", "0", "1", ".", "2", "0", "2", "5">>

\* Tasks to search among: the task of the example, a task whose title is
\* the keyword itself, and a task without the keyword.
SearchTasks ==
    { << BuyMilk, D_01_01_2025, <<>> >>,
      << <<"m", "i", "l", "k">>, D_1_1_2024, <<"W">> >>,
      << <<"a">>, D_1_1_2024, <<>> >> }

SearchTitles == { BuyMilk, <<"m", "i", "l", "k">>, <<"a">> }

\* Keywords: none, the keyword in both spellings, a whole title, and a
\* keyword longer than a title.
SearchQueries ==
    { <<>>,
      <<"m", "i", "l", "k">>,
      <<"M", "i", "l", "k">>,
      BuyMilk,
      <<"y", " ", "m">> }

\* Adding, completing and searching.
NextSearch ==
    \/ AddTask(SearchTasks, MaxRecs)
    \/ MarkCompleted(SearchTitles)
    \/ SearchTask(SearchQueries)

SpecSearch == InitEmpty /\ [][NextSearch]_vars

\* Deadlines written as the prompt asks, D.M.Y: the day and the month
\* with one or two digits, a year of four digits.
DatesDMY ==
    { d \o <<".">> \o m \o <<".">> \o y :
        d \in { <<"0", "1">>, <<"9">>, <<"1", "0">>, <<"3", "1">> },
        m \in { <<"1">>, <<"0", "1">>, <<"1", "2">> },
        y \in { <<"2", "0", "2", "3">>, <<"2", "0", "2", "4">> } }
    \cup { <<"3", "1", ".", "1", "2", ".", "9", "9", "9", "9">>,
           <<"0", "9", ".", "0", "1", ".", "2", "0", "2", "4">>,
           D_1_1_2024 }

DateTasks == { << <<"a">>, d, <<>> >> : d \in DatesDMY }

\* Adding tasks with such deadlines and listing them.
NextDates ==
    \/ AddTask(DateTasks, MaxCompared)
    \/ ViewTasks

SpecDates == InitEmpty /\ [][NextDates]_vars

\* The operations that change the store, on up to MaxAdded tasks.
NextOps ==
    \/ AddTask(UserTasks, MaxAdded)
    \/ MarkCompleted(Titles)
    \/ DeleteTask(Titles)
    \/ LoadFromFile

SpecOps == Init /\ [][NextOps]_vars

\* =================================================================
\* Properties
\* =================================================================

\* The (title, deadline, completed flag, category) of the active tasks, in
\* the order of the active sequence.
ActiveTuples(S) ==
    [i \in 1..Len(S.tasks) |->
        LET r == S.heap[S.tasks[i]]
        IN  <<r.title, r.deadline, r.completed, getCategory(r)>>]

\* The titles of the completed tasks, in the order of the completed sequence.
CompletedTitles(S) ==
    [i \in 1..Len(S.completedTasks) |-> S.heap[S.completedTasks[i]].title]

HasChar(str, c) == \E i \in 1..Len(str) : str[i] = c

\* The store a fresh TaskManager holds after loading the file that
\* saveToFile writes for the current store.
Reloaded == loadFromFile(EmptyStore, saveToFile(Store, file, TRUE))

RoundTrips ==
    /\ ActiveTuples(Reloaded) = ActiveTuples(Store)
    /\ CompletedTitles(Reloaded) = CompletedTitles(Store)

\* No text of the store collides with the file format: no title, deadline
\* or category of an active task and no title of a completed task holds a
\* ';', and no active title starts with "DONE:".
FormatSafe ==
    /\ \A i \in 1..Len(tasks) :
          LET r == heap[tasks[i]]
          IN  /\ ~HasChar(r.title, ";")
              /\ ~HasChar(r.deadline, ";")
              /\ ~HasChar(getCategory(r), ";")
              /\ ~StartsWith(r.title, DONE)
    /\ \A i \in 1..Len(completedTasks) :
          ~HasChar(heap[completedTasks[i]].title, ";")

\* C1 as claimed: in every reachable store state, saving the store and
\* loading the file into a fresh store gives back the same active
\* (title, deadline, flag, category) tuples in the same order and the same
\* completed titles in the same order.
C1_RoundTripAnyStore == RoundTrips

\* C1 as amended: the round trip holds for every reachable store state in
\* which no title, deadline or category of an active task and no title of a
\* completed task holds a ';' and no active title starts with "DONE:".
C1_RoundTrip == FormatSafe => RoundTrips

\* A format-safe store with an active categorized task and a completed
\* task has just been saved.
C1_Witness ==
    /\ lastOp.op = "saveToFile" /\ lastOp.flag
    /\ file.lines = saveLines(Store)
    /\ FormatSafe
    /\ Len(completedTasks) >= 1
    /\ \E i \in 1..Len(tasks) : getCategory(heap[tasks[i]]) # <<>>

\* The titles of the active sequence.
ActiveTitles == {heap[tasks[i]].title : i \in 1..Len(tasks)}

\* The position of the most recently added active task titled t.
LastAdded(t) ==
    CHOOSE i \in 1..Len(tasks) :
        /\ heap[tasks[i]].title = t
        /\ \A j \in (i + 1)..Len(tasks) : heap[tasks[j]].title # t

\* C2: after any sequence of addTask calls on an empty store, titleMap has
\* one entry for each distinct title of the active sequence and no other,
\* and the entry of a title points to the task added last with that title.
C2_Uniqueness ==
    /\ DOMAIN titleMap = ActiveTitles
    /\ \A t \in DOMAIN titleMap : titleMap[t] = tasks[LastAdded(t)]

\* Two tasks with one title were added; the entry points to the later one.
C2_Witness ==
    /\ lastOp.op = "addTask"
    /\ \E i, j \in 1..Len(tasks) :
          /\ i < j
          /\ heap[tasks[i]].title = heap[tasks[j]].title
          /\ titleMap[heap[tasks[j]].title] = tasks[j]
          /\ tasks[i] # tasks[j]

\* C3: no two tasks of the active sequence have the same title.
C3_TitleIsPrimaryKey ==
    \A i, j \in 1..Len(tasks) :
        i # j => heap[tasks[i]].title # heap[tasks[j]].title

\* C4: right after a markCompleted(title) that found the title, a
\* markCompleted(title) or deleteTask(title) finds no entry for the title
\* and leaves tasks, completedTasks, titleMap, categories (and the task
\* objects) as they are.
C4_CompletionIsTerminal ==
    [][ ( /\ lastOp.op = "markCompleted" /\ lastOp.flag
          /\ lastOp'.op \in {"markCompleted", "deleteTask"}
          /\ lastOp'.arg = lastOp.arg )
        => ( /\ lastOp.arg \notin DOMAIN titleMap
             /\ ~lastOp'.flag
             /\ StoreUnchanged ) ]_vars

\* A second call for the title of the task completed last found nothing.
C4_Witness ==
    /\ lastOp.op \in {"markCompleted", "deleteTask"}
    /\ ~lastOp.flag
    /\ lastOp.arg \notin DOMAIN titleMap
    /\ completedTasks # <<>>
    /\ heap[completedTasks[Len(completedTasks)]].title = lastOp.arg
    /\ heap[completedTasks[Len(completedTasks)]].completed

\* C5: no step of the program takes a category out of categories.
C5_CategoryMonotonicity == [][categories \subseteq categories']_vars

\* The only task of a category was deleted, the category is still known.
C5_Witness ==
    /\ lastOp.op = "deleteTask" /\ lastOp.flag
    /\ \E c \in categories : \A p \in DOMAIN heap : getCategory(heap[p]) # c

\* The deadlines of the sorting example.
D_15_03_2023 == <<"1", "5", ".", "0", "3", ".", "2", "0", "2", "3">>

D_02_02_2024 == <<"0", "2", ".", "0", "2", ".", "2", "0", "2", "4">>

\* viewTasks(true) has just listed three active tasks that carry the three
\* deadlines of the example (in SpecSort every task is a plain task
\* titled "a").
SortExampleListed ==
    /\ lastOp.op = "viewTasks" /\ lastOp.flag
    /\ Len(tasks) = 3
    /\ {heap[tasks[i]].deadline : i \in 1..3}
         = {D_1_1_2024, D_15_03_2023, D_02_02_2024}

\* The lines viewTasks writes for plain tasks titled "a" with the
\* deadlines ds, in that order.
ListingOf(ds) == [i \in 1..Len(ds) |-> display(Task(<<"a">>, ds[i], FALSE))]

\* C6 as claimed: the three tasks are listed in the order 15.03.2023,
\* 02.02.2024, 1.1.2024, the keys of the deadlines ascending in that order.
C6_SortOrderClaimed ==
    SortExampleListed =>
        /\ out = ListingOf(<<D_15_03_2023, D_02_02_2024, D_1_1_2024>>)
        /\ dateToInt(D_15_03_2023).val < dateToInt(D_02_02_2024).val
        /\ dateToInt(D_02_02_2024).val < dateToInt(D_1_1_2024).val

\* C6 as amended: the three tasks are listed in the order 15.03.2023,
\* 1.1.2024, 02.02.2024, the keys of the deadlines ascending in that order.
C6_SortOrder ==
    SortExampleListed =>
        /\ lastOp.outcome = "ok"
        /\ out = ListingOf(<<D_15_03_2023, D_1_1_2024, D_02_02_2024>>)
        /\ dateToInt(D_15_03_2023).val < dateToInt(D_1_1_2024).val
        /\ dateToInt(D_1_1_2024).val < dateToInt(D_02_02_2024).val

\* The three tasks were added latest deadline first and listed sorted.
C6_Witness ==
    /\ SortExampleListed
    /\ heap[tasks[1]].deadline = D_02_02_2024
    /\ heap[tasks[3]].deadline = D_15_03_2023
    /\ Len(out) = 3

\* The record a "DONE:" line of the file stands for.
doneRecord(fileLine) == parseLine(SubStr(fileLine, 6, Len(fileLine)))

IsDoneLine(fileLine) == StartsWith(fileLine, DONE)

IsActiveLine(fileLine) == ~StartsWith(fileLine, DONE)

\* The line of the example of C7: DONE:Report;10.10.2024;1;Work
ReportLine ==
    <<"D", "O", "N", "E", ":", "R", "e", "p", "o", "r", "t", ";",
      "1", "0", ".", "1", "0", ".", "2", "0", "2", "4", ";", "1", ";",
      "W", "o", "r", "k">>

\* C7: loadFromFile appends one task per "DONE:" line, parsed from the line
\* without the prefix, to the end of completedTasks, in the order of the
\* lines; these lines add nothing to tasks, titleMap and categories, which
\* change by the other lines of the file alone, also when the "DONE:" line
\* has a category.  Loading only DONE:Report;10.10.2024;1;Work into an
\* empty store gives no active task, the completed task "Report" and no
\* category.
C7_DoneLinesBypassIndex ==
    [][ (lastOp'.op = "loadFromFile" /\ lastOp'.flag) =>
          LET done   == SelectSeq(file.lines, IsDoneLine)
              active == SelectSeq(file.lines, IsActiveLine)
              n      == Len(completedTasks)
          IN  /\ Len(completedTasks') = n + Len(done)
              /\ SubSeq(completedTasks', 1, n) = completedTasks
              /\ \A k \in 1..Len(done) :
                    heap'[completedTasks'[n + k]] = doneRecord(done[k])
              /\ Len(tasks') = Len(tasks) + Len(active)
              /\ SubSeq(tasks', 1, Len(tasks)) = tasks
              /\ DOMAIN titleMap'
                   = DOMAIN titleMap
                     \cup {parseLine(active[k]).title : k \in 1..Len(active)}
              /\ categories'
                   = categories
                     \cup ({getCategory(parseLine(active[k])) : k \in 1..Len(active)}
                           \ {<<>>})
              /\ active = <<>> =>
                    /\ tasks' = tasks
                    /\ titleMap' = titleMap
                    /\ categories' = categories
              /\ (Store = EmptyStore /\ file.lines = <<ReportLine>>) =>
                    /\ tasks' = <<>>
                    /\ titleMap' = <<>>
                    /\ categories' = {}
                    /\ Len(completedTasks') = 1
                    /\ heap'[completedTasks'[1]].title = <<"R", "e", "p", "o", "r", "t">>
        ]_vars

\* The line of the example was loaded into a store that held one active
\* task: the store has a completed CategorizedTask "Report" of category
\* "Work", which is neither a key of titleMap nor in categories.
C7_Witness ==
    /\ lastOp.op = "loadFromFile" /\ lastOp.flag
    /\ file.lines = <<ReportLine>>
    /\ Len(tasks) = 1
    /\ Len(completedTasks) = 1
    /\ heap[completedTasks[1]].title = <<"R", "e", "p", "o", "r", "t">>
    /\ getCategory(heap[completedTasks[1]]) = <<"W", "o", "r", "k">>
    /\ <<"R", "e", "p", "o", "r", "t">> \notin DOMAIN titleMap
    /\ <<"W", "o", "r", "k">> \notin categories

\* C8: a saveToFile whose path could not be opened for writing ends in an
\* I/O error, not as a save that succeeded.
C8_SaveFailureSurfaced ==
    (lastOp.op = "saveToFile" /\ ~lastOp.flag) => lastOp.outcome # "ok"

\* The task lines of the output of filterByCategory: what follows the
\* heading, the known categories, the empty line and the "Showing" line.
FilterListing == SubSeq(out, Cardinality(categories) + 4, Len(out))

\* The active tasks whose category is c, in the order of the active sequence.
ActiveOfCategory(c) ==
    LET Carries(t) == getCategory(heap[t]) = c
    IN  SelectSeq(tasks, Carries)

\* C9: filterByCategory(category) lists exactly the active tasks whose
\* category is the argument, and lists no task at all for the empty string
\* and for a category no active task carries.
C9_FilterExact ==
    lastOp.op = "filterByCategory" =>
        /\ FilterListing = Displayed(heap, ActiveOfCategory(lastOp.arg))
        /\ (lastOp.arg = <<>>
            \/ \A i \in 1..Len(tasks) :
                  heap[tasks[i]].kind = "CategorizedTask"
                  => heap[tasks[i]].category # lastOp.arg)
           => FilterListing = <<>>

\* The text between the dots (before the first, between, after the last).
DotFields(d) ==
    LET dots == {i \in 1..Len(d) : d[i] = "."}
        cut  == [k \in 0..(Cardinality(dots) + 1) |->
                    IF k = 0 THEN 0
                    ELSE IF k = Cardinality(dots) + 1 THEN Len(d) + 1
                    ELSE CHOOSE i \in dots :
                            Cardinality({j \in dots : j < i}) = k - 1]
    IN  [k \in 1..(Cardinality(dots) + 1) |-> SubStr(d, cut[k - 1] + 1, cut[k] - 1)]

\* The deadline is three numeric fields separated by dots.
ThreeNumericFields(d) ==
    /\ Len(DotFields(d)) = 3
    /\ \A k \in 1..3 :
          /\ DotFields(d)[k] # <<>>
          /\ \A i \in 1..Len(DotFields(d)[k]) : IsDigit(DotFields(d)[k][i])

\* C10: when a sorted listing has compared the deadlines of the active
\* tasks, dateToInt fails on every one of them that is not three numeric
\* fields separated by dots, and the listing has ended in that error.
C10_ParseFailure ==
    (lastOp.op = "viewTasks" /\ lastOp.flag /\ Len(tasks) >= 2) =>
        \A i \in 1..Len(tasks) :
            ~ThreeNumericFields(heap[tasks[i]].deadline) =>
                /\ dateToInt(heap[tasks[i]].deadline).outcome # "ok"
                /\ lastOp.outcome # "ok"
\* The string q occurs in s as a run of consecutive characters, compared
\* character by character (so letter case counts).
OccursIn(q, s) ==
    \E i \in 1..(Len(s) + 1) :
        /\ i + Len(q) - 1 <= Len(s)
        /\ \A k \in 1..Len(q) : s[i + k - 1] = q[k]

\* The active tasks whose title holds q, in the order of the active sequence.
ActiveWithKeyword(q) ==
    LET Holds(t) == OccursIn(q, heap[t].title)
    IN  SelectSeq(tasks, Holds)

\* C11: searchTask(query) displays, in the order of the active sequence,
\* exactly the active tasks whose title holds the query as a run of
\* consecutive characters, letter case counting: every active task for the
\* empty query, nothing for "Milk" when the titles hold only "milk", and
\* never a task of the completed sequence.
C11_SearchExact ==
    lastOp.op = "searchTask" =>
        /\ out = Displayed(heap, ActiveWithKeyword(lastOp.arg))
        /\ lastOp.arg = <<>> => out = Displayed(heap, tasks)
        /\ lastOp.arg = <<"M", "i", "l", "k">> => out = <<>>
        /\ \A i \in 1..Len(out) :
              /\ out[i][1] = "[ ] "
              /\ \A j \in 1..Len(completedTasks) :
                    out[i] # display(heap[completedTasks[j]])

\* search("milk") has listed the active "Buy milk" and not the completed
\* task "milk".
C11_Witness ==
    /\ lastOp.op = "searchTask"
    /\ lastOp.arg = <<"m", "i", "l", "k">>
    /\ Len(tasks) = 1 /\ heap[tasks[1]].title = BuyMilk
    /\ Len(completedTasks) = 1
    /\ heap[completedTasks[1]].title = <<"m", "i", "l", "k">>
    /\ out = <<display(Task(BuyMilk, D_01_01_2025, FALSE))>>

\* C12: a saveToFile whose stream is open leaves a file of exactly one line
\* per task of the store: the serialised active tasks in the order of the
\* active sequence, then the serialised completed tasks in the order of the
\* completed sequence, each of these behind the literal "DONE:"; the file
\* has |active| + |completed| lines and no line of an active task comes
\* after the line of a completed task.
C12_SaveLayout ==
    (lastOp.op = "saveToFile" /\ lastOp.flag) =>
        /\ file.exists
        /\ Len(file.lines) = Len(tasks) + Len(completedTasks)
        /\ \A i \in 1..Len(tasks) :
              file.lines[i] = toFileString(heap[tasks[i]])
        /\ \A j \in 1..Len(completedTasks) :
              file.lines[Len(tasks) + j]
                = DONE \o toFileString(heap[completedTasks[j]])

\* A store with an active and a completed task was saved: two lines, the
\* second one behind "DONE:".
C12_Witness ==
    /\ lastOp.op = "saveToFile" /\ lastOp.flag
    /\ Len(tasks) = 1 /\ Len(completedTasks) = 1
    /\ Len(file.lines) = 2
    /\ file.lines[1] = toFileString(heap[tasks[1]])
    /\ StartsWith(file.lines[2], DONE)
    /\ ~StartsWith(file.lines[1], DONE)

\* C13: in every reachable state the keys of titleMap are exactly the
\* titles of the tasks of the active sequence, so that every active task
\* is found by its title.
C13_TitleMapIsExactIndex == DOMAIN titleMap = ActiveTitles

\* C14: in every reachable state every task of the active sequence has
\* completed = false and every task of the completed sequence has
\* completed = true.
C14_PartitionByFlag ==
    /\ \A i \in 1..Len(tasks) : ~heap[tasks[i]].completed
    /\ \A j \in 1..Len(completedTasks) : heap[completedTasks[j]].completed

\* The sequence v without the occurrences of p, the rest in its order.
Without(v, p) ==
    LET Other(q) == q # p
    IN  SelectSeq(v, Other)

\* What a markCompleted(title) that finds the title does, as a step.
CompletionEffect(title) ==
    LET p == titleMap[title]
    IN  /\ p \in DOMAIN heap'
        /\ heap'[p] = [heap[p] EXCEPT !.completed = TRUE]
        /\ \A q \in DOMAIN heap \ {p} : q \in DOMAIN heap' /\ heap'[q] = heap[q]
        /\ completedTasks' = completedTasks \o <<p>>
        /\ tasks' = Without(tasks, p)
        /\ \A i \in 1..Len(tasks') : tasks'[i] # p
        /\ DOMAIN titleMap' = DOMAIN titleMap \ {title}
        /\ \A k \in DOMAIN titleMap' : titleMap'[k] = titleMap[k]
        /\ categories' = categories

\* What every step keeps of the completed sequence: its tasks stay where
\* they are, alive, and none of them is in the active sequence afterwards.
CompletedStay ==
    /\ Len(completedTasks') >= Len(completedTasks)
    /\ SubSeq(completedTasks', 1, Len(completedTasks)) = completedTasks
    /\ \A j \in 1..Len(completedTasks) :
          /\ completedTasks[j] \in DOMAIN heap'
          /\ heap'[completedTasks[j]] = heap[completedTasks[j]]
          /\ \A i \in 1..Len(tasks') : tasks'[i] # completedTasks[j]

\* C15: a markCompleted(title) whose title is a key of titleMap sets the
\* completed flag of the mapped task, appends it as the last element of the
\* completed sequence, takes every occurrence of it out of the active
\* sequence (the other active tasks keep their order) and takes the title
\* out of titleMap; the earlier elements of the completed sequence and
\* categories stay as they are; and no step ever takes a task out of the
\* completed sequence or puts it back into the active sequence.
C15_CompletionEffect ==
    [][ /\ (lastOp'.op = "markCompleted" /\ lastOp'.flag)
              => CompletionEffect(lastOp'.arg)
        /\ CompletedStay ]_vars

\* The task "b", added between two tasks titled "a", has just been
\* completed after one of them: it is the last of two completed tasks and
\* a task "a" is still active.
C15_Witness ==
    /\ lastOp.op = "markCompleted" /\ lastOp.flag
    /\ lastOp.arg = <<"b">>
    /\ Len(completedTasks) = 2
    /\ heap[completedTasks[2]].title = <<"b">>
    /\ heap[completedTasks[2]].completed
    /\ heap[completedTasks[1]].title = <<"a">>
    /\ Len(tasks) = 1
    /\ <<"b">> \notin DOMAIN titleMap

\* C16: a markCompleted(title) or deleteTask(title) whose title is no key
\* of titleMap leaves the active sequence, the completed sequence, titleMap
\* and categories (and the task objects) as they are, ends normally and
\* writes nothing, also when a task of that title is in the completed
\* sequence.
C16_NotFoundIsNoOp ==
    [][ ( /\ lastOp'.op \in {"markCompleted", "deleteTask"}
          /\ lastOp'.arg \notin DOMAIN titleMap )
        => ( /\ tasks' = tasks
             /\ completedTasks' = completedTasks
             /\ titleMap' = titleMap
             /\ categories' = categories
             /\ heap' = heap
             /\ lastOp'.outcome = "ok"
             /\ out' = <<>> ) ]_vars

\* deleteTask was called for a title that only a completed task carries,
\* while another task is active.
C16_Witness ==
    /\ lastOp.op = "deleteTask" /\ ~lastOp.flag
    /\ lastOp.arg \notin DOMAIN titleMap
    /\ \E j \in 1..Len(completedTasks) :
          heap[completedTasks[j]].title = lastOp.arg
    /\ Len(tasks) >= 1
    /\ \A i \in 1..Len(tasks) : heap[tasks[i]].title # lastOp.arg

\* Every deadline of the active sequence converts to a key.
AllDeadlinesConvert ==
    \A i \in 1..Len(tasks) : dateToInt(heap[tasks[i]].deadline).outcome = "ok"

\* The ways to list the positions 1..n, each exactly once.
Listings(n) ==
    { f \in [1..n -> 1..n] : \A i, j \in 1..n : i # j => f[i] # f[j] }

\* C17: when every active deadline converts, viewTasks(true) ends normally
\* and displays each task of the active sequence exactly once, in an order
\* in which the deadline keys never decrease; it leaves the active
\* sequence (in its insertion order), the completed sequence, titleMap and
\* categories as they are, and a viewTasks(false) displays the active
\* sequence in insertion order.
C17_SortedViewReadOnly ==
    [][ /\ (lastOp'.op = "viewTasks" /\ lastOp'.flag /\ AllDeadlinesConvert) =>
              /\ lastOp'.outcome = "ok"
              /\ \E f \in Listings(Len(tasks)) :
                    /\ out' = [i \in 1..Len(tasks) |-> display(heap[tasks[f[i]]])]
                    /\ \A i \in 1..(Len(tasks) - 1) :
                          dateToInt(heap[tasks[f[i]]].deadline).val
                            <= dateToInt(heap[tasks[f[i + 1]]].deadline).val
              /\ tasks' = tasks
              /\ completedTasks' = completedTasks
              /\ titleMap' = titleMap
              /\ categories' = categories
              /\ heap' = heap
        /\ (lastOp'.op = "viewTasks" /\ ~lastOp'.flag) =>
              /\ tasks' = tasks
              /\ out' = [i \in 1..Len(tasks) |-> display(heap[tasks[i]])]
      ]_vars

\* Three tasks added latest deadline first were listed sorted, the listing
\* in the reverse of the insertion order, the active sequence as it was.
C17_Witness ==
    /\ lastOp.op = "viewTasks" /\ lastOp.flag /\ lastOp.outcome = "ok"
    /\ Len(tasks) = 3
    /\ AllDeadlinesConvert
    /\ dateToInt(heap[tasks[1]].deadline).val > dateToInt(heap[tasks[2]].deadline).val
    /\ dateToInt(heap[tasks[2]].deadline).val > dateToInt(heap[tasks[3]].deadline).val
    /\ out = <<display(heap[tasks[3]]), display(heap[tasks[2]]), display(heap[tasks[1]])>>

\* The number a string of digits writes.
RECURSIVE NumberOf(_)
NumberOf(ds) ==
    IF ds = <<>> THEN 0
    ELSE NumberOf(SubSeq(ds, 1, Len(ds) - 1)) * 10 + DigitVal(ds[Len(ds)])

\* The three fields of a deadline written with exactly two dots.
FieldsDMY(d) ==
    LET dots == {i \in 1..Len(d) : d[i] = "."}
        p1   == SetMin(dots)
        p2   == SetMin(dots \ {p1})
    IN  <<SubSeq(d, 1, p1 - 1), SubSeq(d, p1 + 1, p2 - 1), SubSeq(d, p2 + 1, Len(d))>>

\* The deadline is D.M.Y: a day 1..31 and a month 1..12 of one or two
\* digits, a year of four digits.
IsDMY(d) ==
    /\ Cardinality({i \in 1..Len(d) : d[i] = "."}) = 2
    /\ LET f == FieldsDMY(d)
       IN  /\ \A k \in 1..3 : \A i \in 1..Len(f[k]) : IsDigit(f[k][i])
           /\ Len(f[1]) \in {1, 2} /\ NumberOf(f[1]) \in 1..31
           /\ Len(f[2]) \in {1, 2} /\ NumberOf(f[2]) \in 1..12
           /\ Len(f[3]) = 4

\* The date a deadline D.M.Y denotes: <<year, month, day>>.
DateOf(d) ==
    LET f == FieldsDMY(d)
    IN  <<NumberOf(f[3]), NumberOf(f[2]), NumberOf(f[1])>>

\* For each task of the active sequence: whether its deadline is D.M.Y,
\* the date it denotes and what dateToInt makes of it.
RECURSIVE DeadlinesRead(_)
DeadlinesRead(v) ==
    IF v = <<>> THEN <<>>
    ELSE LET d == heap[Head(v)].deadline
         IN  << [dmy  |-> IsDMY(d),
                 date |-> IF IsDMY(d) THEN DateOf(d) ELSE <<0, 0, 0>>,
                 key  |-> dateToInt(d)] >>
             \o DeadlinesRead(Tail(v))

\* <<year, month, day>> compared lexicographically.
Earlier(x, y) ==
    \/ x[1] < y[1]
    \/ x[1] = y[1] /\ x[2] < y[2]
    \/ x[1] = y[1] /\ x[2] = y[2] /\ x[3] < y[3]

\* C18: for any two deadlines written D.M.Y (day and month with one or two
\* digits, a four-digit year), dateToInt converts both, the key of the
\* first is less than the key of the second exactly when its
\* (year, month, day) is the earlier one, and the keys are equal exactly
\* when the two denote the same date, however the day and month are padded.
C18_KeyIsChronological ==
    LET r == DeadlinesRead(tasks)
    IN  \A i, j \in 1..Len(r) :
            (r[i].dmy /\ r[j].dmy) =>
              /\ r[i].key.outcome = "ok" /\ r[j].key.outcome = "ok"
              /\ (r[i].key.val < r[j].key.val) <=> Earlier(r[i].date, r[j].date)
              /\ (r[i].key.val = r[j].key.val) <=> (r[i].date = r[j].date)

\* A sorted listing has compared 10.1.2024 with 9.01.2024, the later date
\* added first and padded differently, and lists the earlier one first.
C18_Witness ==
    /\ lastOp.op = "viewTasks" /\ lastOp.flag /\ lastOp.outcome = "ok"
    /\ Len(tasks) = 2
    /\ IsDMY(heap[tasks[1]].deadline) /\ IsDMY(heap[tasks[2]].deadline)
    /\ heap[tasks[1]].deadline = <<"1", "0", ".", "1", ".", "2", "0", "2", "4">>
    /\ heap[tasks[2]].deadline = <<"9", ".", "0", "1", ".", "2", "0", "2", "4">>
    /\ out = <<display(heap[tasks[2]]), display(heap[tasks[1]])>>

\* How often the pointer p occurs in the sequence v.
Occurrences(v, p) == Cardinality({i \in 1..Len(v) : v[i] = p})

\* C19: in every reachable state every value of titleMap is a live task
\* that is in the active sequence and carries the key as its title; no
\* task is in the active and in the completed sequence or more than once
\* in either; and the destructor deletes every live task exactly once and
\* nothing else.
C19_SingleOwner ==
    /\ \A k \in DOMAIN titleMap :
          /\ titleMap[k] \in DOMAIN heap
          /\ Occurrences(tasks, titleMap[k]) = 1
          /\ heap[titleMap[k]].title = k
    /\ \A p \in DOMAIN heap :
          /\ Occurrences(tasks, p) <= 1
          /\ Occurrences(completedTasks, p) <= 1
          /\ Occurrences(tasks, p) + Occurrences(completedTasks, p) = 1
          /\ Occurrences(DestructorDeletes(Store), p) = 1
    /\ \A i \in 1..Len(DestructorDeletes(Store)) :
          DestructorDeletes(Store)[i] \in DOMAIN heap

\* The later of two tasks of one title was deleted while a completed task
\* exists: the earlier one is still active, no key points to it.
C19_Witness ==
    /\ lastOp.op = "deleteTask" /\ lastOp.flag
    /\ Len(completedTasks) >= 1
    /\ \E i \in 1..Len(tasks) : heap[tasks[i]].title = lastOp.arg
    /\ lastOp.arg \notin DOMAIN titleMap

====
